---- MODULE Spec2Model ----
(***************************************************************************)
(* Model of the Kids Weekly Planner screen (KidsWeeklyPlanner.tsx, kept in *)
(* src/README.md from line 105 on): the event collection, the add/edit     *)
(* form, validation, overlap detection, the sorted view, the CSV codec and *)
(* the AsyncStorage persistence effects.                                   *)
(*                                                                         *)
(* A JavaScript string is a sequence of one-character strings, so that     *)
(* trimming, splitting, quoting and lexicographic comparison are computed  *)
(* character by character as the code computes them.                       *)
(***************************************************************************)
EXTENDS Integers, Sequences, FiniteSets, TLC

(***************************************************************************)
(* Bounds of the model.                                                    *)
(***************************************************************************)
MaxEvents == 2      \* most events the in-memory collection holds
MaxIds == 2         \* most identifiers crypto.randomUUID hands out
MaxPending == 1     \* a user mutation waits while this many writes are in flight

(***************************************************************************)
(* Strings.                                                                *)
(***************************************************************************)
Lower == <<"a","b","c","d","e","f","g","h","i","j","k","l","m",
           "n","o","p","q","r","s","t","u","v","w","x","y","z">>
Upper == <<"A","B","C","D","E","F","G","H","I","J","K","L","M",
           "N","O","P","Q","R","S","T","U","V","W","X","Y","Z">>
Digits == <<"0","1","2","3","4","5","6","7","8","9">>

IndexIn(seq, c) == CHOOSE i \in 1..Len(seq) : seq[i] = c

\* UTF-16 code unit of a character, the key of JavaScript's string comparison
CharCode(c) ==
  CASE c = "\n" -> 10
    [] c = "\r" -> 13
    [] c = " " -> 32
    [] c = "\"" -> 34
    [] c = "#" -> 35
    [] c = "," -> 44
    [] c = ":" -> 58
    [] \E i \in 1..10 : Digits[i] = c -> 47 + IndexIn(Digits, c)
    [] \E i \in 1..26 : Upper[i] = c -> 64 + IndexIn(Upper, c)
    [] \E i \in 1..26 : Lower[i] = c -> 96 + IndexIn(Lower, c)

WhiteSpace == {" ", "\n", "\r"}

\* a < b on JavaScript strings: first differing code unit, a proper prefix is less
RECURSIVE StrLess(_, _)
StrLess(a, b) ==
  IF b = <<>> THEN FALSE
  ELSE IF a = <<>> THEN TRUE
  ELSE IF Head(a) = Head(b) THEN StrLess(Tail(a), Tail(b))
  ELSE CharCode(Head(a)) < CharCode(Head(b))

\* String.prototype.trim
RECURSIVE TrimLeft(_)
TrimLeft(s) ==
  IF s # <<>> /\ Head(s) \in WhiteSpace THEN TrimLeft(Tail(s)) ELSE s

RECURSIVE TrimRight(_)
TrimRight(s) ==
  IF s # <<>> /\ s[Len(s)] \in WhiteSpace
    THEN TrimRight(SubSeq(s, 1, Len(s) - 1)) ELSE s

Trim(s) == TrimRight(TrimLeft(s))

\* s.replaceAll(c, r) for a one-character pattern c and a replacement string r
RECURSIVE ReplaceAll(_, _, _)
ReplaceAll(s, c, r) ==
  IF s = <<>> THEN <<>>
  ELSE (IF Head(s) = c THEN r ELSE <<Head(s)>>) \o ReplaceAll(Tail(s), c, r)

\* s.split(c) for a one-character separator: always at least one piece
RECURSIVE SplitOn(_, _)
SplitOn(s, c) ==
  IF \A i \in 1..Len(s) : s[i] # c THEN <<s>>
  ELSE LET k == CHOOSE i \in 1..Len(s) :
                  s[i] = c /\ \A j \in 1..(i - 1) : s[j] # c
       IN <<SubSeq(s, 1, k - 1)>> \o SplitOn(SubSeq(s, k + 1, Len(s)), c)

\* pieces.join(c)
RECURSIVE Join(_, _)
Join(pieces, c) ==
  IF pieces = <<>> THEN <<>>
  ELSE IF Len(pieces) = 1 THEN pieces[1]
  ELSE pieces[1] \o <<c>> \o Join(Tail(pieces), c)

(***************************************************************************)
(* Numbers.  A JavaScript number is a record: NaN, or an integer value.    *)
(***************************************************************************)
NaN == [nan |-> TRUE, v |-> 0]
Num(n) == [nan |-> FALSE, v |-> n]

RECURSIVE DecimalValue(_)
DecimalValue(s) ==
  IF s = <<>> THEN 0
  ELSE 10 * DecimalValue(SubSeq(s, 1, Len(s) - 1))
       + (IndexIn(Digits, s[Len(s)]) - 1)

\* Number(s) on the characters of the model: surrounding white space is
\* dropped, the empty string is 0, a run of digits is its decimal value,
\* anything else is NaN
ToNumber(s) ==
  LET t == Trim(s)
  IN IF \A i \in 1..Len(t) : \E d \in 1..10 : Digits[d] = t[i]
       THEN Num(DecimalValue(t)) ELSE NaN

MathMax(x, y) == IF x.nan \/ y.nan THEN NaN ELSE IF x.v >= y.v THEN x ELSE y
MathMin(x, y) == IF x.nan \/ y.nan THEN NaN ELSE IF x.v <= y.v THEN x ELSE y
NumLess(x, y) == IF x.nan \/ y.nan THEN FALSE ELSE x.v < y.v
NumSub(x, y) == IF x.nan \/ y.nan THEN NaN ELSE Num(x.v - y.v)

(***************************************************************************)
(* Time model and overlap detector.                                        *)
(***************************************************************************)
Monday == <<"M","o","n","d","a","y">>
Tuesday == <<"T","u","e","s","d","a","y">>
Wednesday == <<"W","e","d","n","e","s","d","a","y">>
Thursday == <<"T","h","u","r","s","d","a","y">>
Friday == <<"F","r","i","d","a","y">>
Saturday == <<"S","a","t","u","r","d","a","y">>
Sunday == <<"S","u","n","d","a","y">>

DAYS == <<Monday, Tuesday, Wednesday, Thursday, Friday, Saturday, Sunday>>

\* DAYS.indexOf(day), zero-based, -1 when the day is not a weekday name
DayIndex(day) ==
  IF \E i \in 1..Len(DAYS) : DAYS[i] = day
    THEN (CHOOSE i \in 1..Len(DAYS) : DAYS[i] = day) - 1
    ELSE -1

\* timeToRow, in HALF rows so that the .5 step stays an integer:
\* timeToRow("09:30") is 2.5 in the code and Num(5) here.  With a single
\* piece the minute is undefined and undefined >= 30 is false.
\* timeToRow with m > 30 in place of m >= 30: the half hour itself stays on
\* the row of the hour
timeToRowAfterHalf(time) ==
  LET parts == SplitOn(time, ":")
      h == ToNumber(parts[1])
      half == IF Len(parts) >= 2
                THEN LET m == ToNumber(parts[2])
                     IN IF ~m.nan /\ m.v > 30 THEN 1 ELSE 0
                ELSE 0
  IN IF h.nan THEN NaN ELSE Num(2 * (h.v - 7) + half)

timeToRow(time) ==
  LET parts == SplitOn(time, ":")
      h == ToNumber(parts[1])
      half == IF Len(parts) >= 2
                THEN LET m == ToNumber(parts[2])
                     IN IF ~m.nan /\ m.v >= 30 THEN 1 ELSE 0
                ELSE 0
  IN IF h.nan THEN NaN ELSE Num(2 * (h.v - 7) + half)

\* overlaps with <= in place of <: events that only touch count as overlapping
overlapsTouching(a, b) ==
  IF a.day # b.day THEN FALSE
  ELSE LET sa == timeToRow(a.start)
           ea == timeToRow(a.end)
           sb == timeToRow(b.start)
           eb == timeToRow(b.end)
           hi == MathMax(sa, sb)
           lo == MathMin(ea, eb)
       IN ~hi.nan /\ ~lo.nan /\ hi.v <= lo.v

overlaps(a, b) ==
  IF a.day # b.day THEN FALSE
  ELSE LET sa == timeToRow(a.start)
           ea == timeToRow(a.end)
           sb == timeToRow(b.start)
           eb == timeToRow(b.end)
       IN NumLess(MathMax(sa, sb), MathMin(ea, eb))

(***************************************************************************)
(* Events.  An EventItem is a record of an identifier and seven strings;   *)
(* a property the object does not have reads as Undefined.                 *)
(***************************************************************************)
Undefined == <<"undefined">>

EventItem(id, title, day, start, end, category, color, notes) ==
  [id |-> id, title |-> title, day |-> day, start |-> start, end |-> end,
   category |-> category, color |-> color, notes |-> notes]

Ids(evs) == {evs[i].id : i \in 1..Len(evs)}

\* the event without its identifier
Fields(e) == [title |-> e.title, day |-> e.day, start |-> e.start,
              end |-> e.end, category |-> e.category, color |-> e.color,
              notes |-> e.notes]

(***************************************************************************)
(* Sorted view.                                                            *)
(***************************************************************************)
\* the comparator handed to Array.prototype.sort; a NaN result counts as 0
SortCompare(a, b) ==
  IF a.day # b.day THEN DayIndex(a.day) - DayIndex(b.day)
  ELSE LET d == NumSub(timeToRow(a.start), timeToRow(a.start))
       IN IF d.nan THEN 0 ELSE d.v

\* Array.prototype.sort is stable: insertion after the last element that
\* does not compare greater
RECURSIVE InsertSorted(_, _)
InsertSorted(sorted, e) ==
  IF sorted = <<>> THEN <<e>>
  ELSE IF SortCompare(sorted[Len(sorted)], e) > 0
    THEN InsertSorted(SubSeq(sorted, 1, Len(sorted) - 1), e)
         \o <<sorted[Len(sorted)]>>
  ELSE sorted \o <<e>>

RECURSIVE StableSort(_)
StableSort(evs) ==
  IF evs = <<>> THEN <<>>
  ELSE InsertSorted(StableSort(SubSeq(evs, 1, Len(evs) - 1)), evs[Len(evs)])

sortedEvents(evs) == StableSort(evs)

(***************************************************************************)
(* CSV codec.                                                              *)
(***************************************************************************)
ColTitle == <<"t","i","t","l","e">>
ColDay == <<"d","a","y">>
ColStart == <<"s","t","a","r","t">>
ColEnd == <<"e","n","d">>
ColCategory == <<"c","a","t","e","g","o","r","y">>
ColColor == <<"c","o","l","o","r">>
ColNotes == <<"n","o","t","e","s">>

header == <<ColTitle, ColDay, ColStart, ColEnd, ColCategory, ColColor, ColNotes>>

\* (e as any)[h]
GetField(e, h) ==
  CASE h = ColTitle -> e.title
    [] h = ColDay -> e.day
    [] h = ColStart -> e.start
    [] h = ColEnd -> e.end
    [] h = ColCategory -> e.category
    [] h = ColColor -> e.color
    [] h = ColNotes -> e.notes
    [] OTHER -> Undefined

\* `"${String(v).replaceAll('"','""')}"` of v ?? ''
QuoteValue(v) ==
  LET w == IF v = Undefined THEN <<>> ELSE v
  IN <<"\"">> \o ReplaceAll(w, "\"", <<"\"", "\"">>) \o <<"\"">>

ExportRow(e) == Join([i \in 1..Len(header) |-> QuoteValue(GetField(e, header[i]))], ",")

\* the text exportCSV puts into the downloaded file
ExportText(evs) ==
  Join(<<Join(header, ",")>> \o [i \in 1..Len(evs) |-> ExportRow(evs[i])], "\n")

\* text.split(/\r?\n/)
RECURSIVE SplitLines(_)
SplitLines(text) ==
  IF \A i \in 1..Len(text) : text[i] # "\n" THEN <<text>>
  ELSE LET k == CHOOSE i \in 1..Len(text) :
                  text[i] = "\n" /\ \A j \in 1..(i - 1) : text[j] # "\n"
           stop == IF k > 1 /\ text[k - 1] = "\r" THEN k - 2 ELSE k - 1
       IN <<SubSeq(text, 1, stop)>> \o SplitLines(SubSeq(text, k + 1, Len(text)))

\* .filter(Boolean): the empty string is the only falsy string
RECURSIVE NonEmpty(_)
NonEmpty(pieces) ==
  IF pieces = <<>> THEN <<>>
  ELSE (IF Head(pieces) = <<>> THEN <<>> ELSE <<Head(pieces)>>)
       \o NonEmpty(Tail(pieces))

\* line.match(/"([^"]*)"|[^,]+/g), left to right: a quoted run up to the
\* next quote, else a run of characters up to the next comma
RECURSIVE MatchAll(_)
MatchAll(line) ==
  IF line = <<>> THEN <<>>
  ELSE IF Head(line) = "\"" /\ \E k \in 2..Len(line) : line[k] = "\""
    THEN LET q == CHOOSE k \in 2..Len(line) :
                    line[k] = "\"" /\ \A j \in 2..(k - 1) : line[j] # "\""
         IN <<SubSeq(line, 1, q)>> \o MatchAll(SubSeq(line, q + 1, Len(line)))
  ELSE IF Head(line) # ","
    THEN LET n == IF \E k \in 1..Len(line) : line[k] = ","
                    THEN CHOOSE k \in 1..Len(line) :
                           line[k] = "," /\ \A j \in 1..(k - 1) : line[j] # ","
                    ELSE Len(line) + 1
         IN <<SubSeq(line, 1, n - 1)>> \o MatchAll(SubSeq(line, n, Len(line)))
  ELSE MatchAll(Tail(line))

\* the items of a data line; no match at all gives the empty list
LineItems(line) ==
  LET ms == MatchAll(line)
  IN [i \in 1..Len(ms) |-> ReplaceAll(ms[i], "\"", <<>>)]

\* the columns named by the header line
HeaderCols(h) ==
  LET ps == SplitOn(h, ",")
  IN [i \in 1..Len(ps) |-> Trim(ReplaceAll(ps[i], "\"", <<>>))]

\* obj[c] after cols.forEach((c, i) => (obj[c] = items[i] ?? '')): the last
\* column of that name wins, a name no column has stays undefined
RowValue(cols, items, c) ==
  IF \A i \in 1..Len(cols) : cols[i] # c THEN Undefined
  ELSE LET k == CHOOSE i \in 1..Len(cols) :
                  cols[i] = c /\ \A j \in (i + 1)..Len(cols) : cols[j] # c
       IN IF k <= Len(items) THEN items[k] ELSE <<>>

\* the object built from one data line, before its id is assigned
RowObject(cols, line) ==
  LET items == LineItems(line)
  IN [title |-> RowValue(cols, items, ColTitle),
      day |-> RowValue(cols, items, ColDay),
      start |-> RowValue(cols, items, ColStart),
      end |-> RowValue(cols, items, ColEnd),
      category |-> RowValue(cols, items, ColCategory),
      color |-> RowValue(cols, items, ColColor),
      notes |-> RowValue(cols, items, ColNotes)]

\* the lines of the file read by the import
FileLines(text) == NonEmpty(SplitLines(text))

\* h is undefined when the file has no non-empty line: h.split throws
ParseThrows(text) == FileLines(text) = <<>>

\* the row objects of the import, in file order (text parses)
ParseRows(text) ==
  LET lines == FileLines(text)
      cols == HeaderCols(lines[1])
  IN [i \in 1..(Len(lines) - 1) |-> RowObject(cols, lines[i + 1])]

(***************************************************************************)
(* Persistence.  A stored entry is what AsyncStorage.getItem returns: null *)
(* (missing), text that JSON.parse rejects (corrupt), or the JSON text of  *)
(* a value, kept as the value JSON.parse gives back for it.                *)
(***************************************************************************)
Missing == [kind |-> "missing", val |-> <<>>]
Corrupt == [kind |-> "corrupt", val |-> <<>>]

\* JSON.stringify(val): the text of a value
JSONstringify(val) == [kind |-> "json", val |-> val]

\* the values null, false and true, which are not strings
Null == <<"null">>
False == <<"false">>
True == <<"true">>

defaultTitle == <<"K","i","d","s"," ","W","e","e","k","l","y"," ",
                  "P","l","a","n","n","e","r">>
defaultBgColor == <<"#","f","8","f","a","f","c">>
defaultAccent == <<"#","2","5","6","3","e","b">>

KeyTitle == "kwp:title"
KeyBgColor == "kwp:bgColor"
KeyAccent == "kwp:accent"
KeyPhoto == "kwp:photo"
KeyEvents == "kwp:events"
KeyDense == "kwp:dense"

\* the keys in the order the hydration effect reads them
KEYS == <<KeyTitle, KeyBgColor, KeyAccent, KeyPhoto, KeyEvents, KeyDense>>
SettingKeys == {KeyTitle, KeyBgColor, KeyAccent, KeyPhoto, KeyDense}

\* the fallback handed to getLS, which is also the useState initial value
Fallback(key) ==
  CASE key = KeyTitle -> defaultTitle
    [] key = KeyBgColor -> defaultBgColor
    [] key = KeyAccent -> defaultAccent
    [] key = KeyPhoto -> Null
    [] key = KeyEvents -> <<>>
    [] key = KeyDense -> False

\* a loader without the try/catch and the null test: whatever is stored is
\* handed on as the value, and a failed read is not noticed
getLSUnguarded(raw, readFails, fallback) ==
  IF raw.kind = "missing" THEN fallback ELSE raw.val

\* getLS: the fallback when the read fails, the entry is missing (raw is
\* null) or JSON.parse throws; the parsed value otherwise
getLS(raw, readFails, fallback) ==
  IF readFails THEN fallback
  ELSE IF raw.kind = "json" THEN raw.val
  ELSE fallback

(***************************************************************************)
(* Inputs of the model: what the user types, picks and imports, and what   *)
(* an earlier session left in storage.                                     *)
(***************************************************************************)
T0900 == <<"0","9",":","0","0">>
T1000 == <<"1","0",":","0","0">>
School == <<"S","c","h","o","o","l">>
TitleA == <<"A">>

\* what the user enters in the form: a field and the text put into it
FormInputs == {<<"title", TitleA>>, <<"day", Wednesday>>, <<"start", T1000>>}

\* an event saved by an earlier session; its id is none this session draws
PersistedEvent == EventItem(0, TitleA, Monday, T0900, T1000, School, defaultAccent, <<>>)

StorageKeys == {KEYS[i] : i \in 1..Len(KEYS)}

\* a first start: nothing stored
FreshStorage == [k \in StorageKeys |-> Missing]

\* what an earlier session that saved one event and kept the default
\* settings left behind
EarlierStorage ==
  [k \in StorageKeys |->
     IF k = KeyEvents THEN JSONstringify(<<PersistedEvent>>)
     ELSE JSONstringify(Fallback(k))]

\* files the user may pick for import: an empty file, and a two-row file
\* whose first row has its end before its start, whose second row is an
\* earlier event of the same day, and whose last line ends with a line break
BadRangeRow == EventItem(0, TitleA, Monday, T1000, T0900, School, defaultAccent, <<>>)
GoodRow == EventItem(0, TitleA, Monday, T0900, T1000, School, defaultAccent, <<>>)
ImportFiles == {<<>>,
                ExportText(<<BadRangeRow, GoodRow>>) \o <<"\r", "\n">>}

(***************************************************************************)
(* State.                                                                  *)
(***************************************************************************)
VARIABLES
  mounted,    \* the component has mounted and its effects have run
  hpc,        \* hydration effect: 0 not started, i reading KEYS[i], 7 done
  settings,   \* title, bgColor, accent, photo, denseHours, by storage key
  events,     \* the in-memory event collection
  editing,    \* the form's candidate: <<>> for null, <<e>> for an event
  open,       \* the add/edit modal is visible
  alerts,     \* the Alert.alert calls of the latest handler
  nextId,     \* the next identifier crypto.randomUUID returns
  reading,    \* texts FileReader.readAsText has been asked to load
  download,   \* the file the latest handler downloaded: <<>> or <<text>>
  storage,    \* AsyncStorage: the stored entry of every key
  writes      \* AsyncStorage.setItem calls issued and not yet applied

vars == <<mounted, hpc, settings, events, editing, open, alerts, nextId,
          reading, download, storage, writes>>

AlertTitle == <<"Error", "Please add a title">>
AlertTime == <<"Error", "End time must be after start time">>
AlertOverlap == <<"Warning", "This overlaps another event on the same day.">>
AlertImported == <<"Imported", "Imported events from CSV">>
AlertImportFailed == <<"Error", "Failed to import CSV">>

\* setLS that issues nothing while a write for the key is still on its way:
\* the snapshot of the later change never reaches the store
setLSCoalescing(queue, key, val) ==
  IF \E i \in 1..Len(queue) : queue[i].key = key THEN queue
  ELSE Append(queue, [key |-> key, raw |-> JSONstringify(val)])

\* setLS(key, val) as called by a persistence effect
setLS(queue, key, val) == Append(queue, [key |-> key, raw |-> JSONstringify(val)])

Init ==
  /\ mounted = FALSE
  /\ hpc = 0
  /\ settings = [k \in SettingKeys |-> Fallback(k)]
  /\ events = <<>>
  /\ editing = <<>>
  /\ open = FALSE
  /\ alerts = <<>>
  /\ nextId = 1
  /\ reading = <<>>
  /\ download = <<>>
  /\ storage \in {FreshStorage, EarlierStorage}
  /\ writes = <<>>

\* first render committed: the hydration effect starts its reads and each
\* of the six persistence effects calls setLS with the initial state
Mount ==
  /\ ~mounted
  /\ mounted' = TRUE
  /\ hpc' = 1
  /\ writes' = setLS(setLS(setLS(setLS(setLS(setLS(writes,
                 KeyTitle, settings[KeyTitle]),
                 KeyBgColor, settings[KeyBgColor]),
                 KeyAccent, settings[KeyAccent]),
                 KeyPhoto, settings[KeyPhoto]),
                 KeyEvents, events),
                 KeyDense, settings[KeyDense])
  /\ alerts' = <<>> /\ download' = <<>>
  /\ UNCHANGED <<settings, events, editing, open, nextId, reading, storage>>

\* one `setX(await getLS(key, fallback))` of the hydration effect; the
\* state change re-runs the persistence effect of that key (a new array
\* always counts as a change, an equal primitive does not)
HydrateStep ==
  /\ hpc \in 1..Len(KEYS)
  /\ \E readFails \in BOOLEAN :
       LET key == KEYS[hpc]
           val == getLS(storage[key], readFails, Fallback(key))
       IN IF key = KeyEvents
            THEN /\ events' = val
                 /\ writes' = setLS(writes, key, val)
                 /\ UNCHANGED settings
            ELSE /\ settings' = [settings EXCEPT ![key] = val]
                 /\ writes' = IF val # settings[key]
                                THEN setLS(writes, key, val) ELSE writes
                 /\ UNCHANGED events
  /\ hpc' = hpc + 1
  /\ alerts' = <<>> /\ download' = <<>>
  /\ UNCHANGED <<mounted, editing, open, nextId, reading, storage>>

\* AsyncStorage carries out the oldest setItem
ApplyWrite ==
  /\ writes # <<>>
  /\ storage' = [storage EXCEPT ![Head(writes).key] = Head(writes).raw]
  /\ writes' = Tail(writes)
  /\ alerts' = <<>> /\ download' = <<>>
  /\ UNCHANGED <<mounted, hpc, settings, events, editing, open, nextId, reading>>

\* resetForm(); setOpen(true)
handleAdd ==
  /\ mounted /\ ~open
  /\ nextId <= MaxIds
  /\ editing' = <<EventItem(nextId, <<>>, Monday, T0900, T1000, School,
                            settings[KeyAccent], <<>>)>>
  /\ nextId' = nextId + 1
  /\ open' = TRUE
  /\ alerts' = <<>> /\ download' = <<>>
  /\ UNCHANGED <<mounted, hpc, settings, events, reading, storage, writes>>

\* pressing an event block: setEditing(e); setOpen(true)
editEvent ==
  /\ mounted /\ ~open
  /\ \E i \in 1..Len(events) : editing' = <<events[i]>>
  /\ open' = TRUE
  /\ alerts' = <<>> /\ download' = <<>>
  /\ UNCHANGED <<mounted, hpc, settings, events, nextId, reading, storage, writes>>

\* the form's inputs: setEditing({ ...editing, field: v })
setField ==
  /\ open /\ editing # <<>>
  /\ \E in \in FormInputs :
       editing' = <<[editing[1] EXCEPT ![in[1]] = in[2]]>>
  /\ alerts' = <<>> /\ download' = <<>>
  /\ UNCHANGED <<mounted, hpc, settings, events, open, nextId, reading, storage, writes>>

\* Cancel, or the modal's onRequestClose
closeModal ==
  /\ open
  /\ open' = FALSE
  /\ alerts' = <<>> /\ download' = <<>>
  /\ UNCHANGED <<mounted, hpc, settings, events, editing, nextId, reading, storage, writes>>

(***************************************************************************)
(* Validation, save, delete.                                               *)
(***************************************************************************)
\* !title.trim()
TitleMissing(c) == Trim(c.title) = <<>>

\* start > end in place of start >= end: equal times pass
BadRangeStrict(c) == StrLess(c.end, c.start)

\* start >= end on strings
BadRange(c) == ~StrLess(c.start, c.end)

\* events.some(e => overlaps(e, editing)): the candidate's stored version counts
overlapsWithAny(evs, c) ==
  \E i \in 1..Len(evs) : overlaps(evs[i], c)

\* events.some(e => e.id !== editing.id && overlaps(e, editing))
overlapsWith(evs, c) ==
  \E i \in 1..Len(evs) : evs[i].id # c.id /\ overlaps(evs[i], c)

\* an updater that appends without looking for the id
SaveUpdaterAppend(prev, c) == Append(prev, c)

\* the updater saveEvent hands to setEvents
SaveUpdater(prev, c) ==
  IF \E i \in 1..Len(prev) : prev[i].id = c.id
    THEN [i \in 1..Len(prev) |-> IF prev[i].id = c.id THEN c ELSE prev[i]]
    ELSE Append(prev, c)

\* prev.filter(e => e.id !== id)
RECURSIVE FilterOut(_, _)
FilterOut(prev, id) ==
  IF prev = <<>> THEN <<>>
  ELSE (IF Head(prev).id # id THEN <<Head(prev)>> ELSE <<>>)
       \o FilterOut(Tail(prev), id)

saveEvent ==
  /\ open /\ editing # <<>>
  /\ LET c == editing[1]
     IN IF TitleMissing(c)
          THEN /\ alerts' = <<AlertTitle>>
               /\ UNCHANGED <<events, open, writes>>
        ELSE IF BadRange(c)
          THEN /\ alerts' = <<AlertTime>>
               /\ UNCHANGED <<events, open, writes>>
        ELSE /\ Len(writes) < MaxPending
             /\ Len(SaveUpdater(events, c)) <= MaxEvents
             /\ alerts' = IF overlapsWith(events, c) THEN <<AlertOverlap>> ELSE <<>>
             /\ events' = SaveUpdater(events, c)
             /\ writes' = setLS(writes, KeyEvents, events')
             /\ open' = FALSE
  /\ download' = <<>>
  /\ UNCHANGED <<mounted, hpc, settings, editing, nextId, reading, storage>>

\* the modal's Delete button: deleteEvent(editing.id); setOpen(false)
deleteEvent ==
  /\ open /\ editing # <<>>
  /\ Len(writes) < MaxPending
  /\ events' = FilterOut(events, editing[1].id)
  /\ writes' = setLS(writes, KeyEvents, events')
  /\ open' = FALSE
  /\ alerts' = <<>> /\ download' = <<>>
  /\ UNCHANGED <<mounted, hpc, settings, editing, nextId, reading, storage>>

(***************************************************************************)
(* CSV export and import (web).                                            *)
(***************************************************************************)
exportCSV ==
  /\ mounted /\ ~open
  /\ download' = <<ExportText(events)>>
  /\ alerts' = <<>>
  /\ UNCHANGED <<mounted, hpc, settings, events, editing, open, nextId, reading, storage, writes>>

\* importCSVWeb(file): reader.readAsText(file); one file is read at a time
importCSVWeb ==
  /\ mounted /\ ~open
  /\ reading = <<>>
  /\ \E text \in ImportFiles \cup {download[i] : i \in 1..Len(download)} :
       reading' = <<text>>
  /\ alerts' = <<>> /\ download' = <<>>
  /\ UNCHANGED <<mounted, hpc, settings, events, editing, open, nextId, storage, writes>>

\* one identifier drawn for the whole file instead of one per row
WithOneId(rows, first) ==
  [i \in 1..Len(rows) |->
     EventItem(first, rows[i].title, rows[i].day, rows[i].start,
               rows[i].end, rows[i].category, rows[i].color, rows[i].notes)]

\* the events built from the rows, identifiers drawn in row order
WithIds(rows, first) ==
  [i \in 1..Len(rows) |->
     EventItem(first + i - 1, rows[i].title, rows[i].day, rows[i].start,
               rows[i].end, rows[i].category, rows[i].color, rows[i].notes)]

\* a try block that reads a missing header as an empty one and never throws
ImportResultNoThrow(text, first) ==
  IF ParseThrows(text) THEN [threw |-> FALSE, out |-> <<>>]
  ELSE [threw |-> FALSE, out |-> WithIds(ParseRows(text), first)]

\* the try block of reader.onload run on a file: the collection it passes
\* to setEvents, or the exception caught before setEvents is reached
ImportResult(text, first) ==
  IF ParseThrows(text) THEN [threw |-> TRUE, out |-> <<>>]
  ELSE [threw |-> FALSE, out |-> WithIds(ParseRows(text), first)]

\* reader.onload
readerOnload ==
  /\ reading # <<>>
  /\ LET res == ImportResult(Head(reading), nextId)
     IN IF res.threw
          THEN /\ alerts' = <<AlertImportFailed>>
               /\ UNCHANGED <<events, nextId, writes>>
          ELSE /\ Len(writes) < MaxPending
               /\ Len(res.out) <= MaxEvents
               /\ nextId + Len(res.out) - 1 <= MaxIds
               /\ events' = res.out
               /\ nextId' = nextId + Len(res.out)
               /\ writes' = setLS(writes, KeyEvents, events')
               /\ alerts' = <<AlertImported>>
  /\ reading' = Tail(reading)
  /\ download' = <<>>
  /\ UNCHANGED <<mounted, hpc, settings, editing, open, storage>>

Next ==
  \/ Mount
  \/ HydrateStep
  \/ ApplyWrite
  \/ handleAdd
  \/ editEvent
  \/ setField
  \/ closeModal
  \/ saveEvent
  \/ deleteEvent
  \/ exportCSV
  \/ importCSVWeb
  \/ readerOnload

Spec == Init /\ [][Next]_vars

(***************************************************************************)
(* An editing session on a store left by earlier saves and imports: the    *)
(* form is open on a candidate the user has typed, and Save, Delete or     *)
(* Cancel is pressed.  The stores and candidates range over times off the  *)
(* half hour, ranges that end before they start, blank titles and text     *)
(* that is no time at all.                                                 *)
(***************************************************************************)
T0910 == <<"0","9",":","1","0">>
T0920 == <<"0","9",":","2","0">>
T0930 == <<"0","9",":","3","0">>
SampleTimes == {T0900, T0910, T0920, T0930, T1000}
SampleTitles == {<<>>, <<" ">>, TitleA}
SampleDays == {Monday, Wednesday}

\* events of earlier sessions (their ids are none this session draws): saved
\* ones, an imported one whose end precedes its start and an imported one
\* whose times are not times
StoredSamples ==
  {EventItem(0, TitleA, Monday, T0930, T1000, School, defaultAccent, <<>>),
   EventItem(-1, TitleA, Monday, T0900, T0920, School, defaultAccent, <<>>),
   EventItem(-2, TitleA, Wednesday, T0900, T1000, School, defaultAccent, <<>>),
   EventItem(-3, TitleA, Monday, T1000, T0900, School, defaultAccent, <<>>),
   EventItem(-4, TitleA, Monday, <<"a">>, <<"b">>, School, defaultAccent, <<>>)}

EditorStores ==
  {<<>>} \cup {<<x>> : x \in StoredSamples}
         \cup {p \in StoredSamples \X StoredSamples : p[1] # p[2]}

Candidates(evs) ==
  {EventItem(id, title, day, start, end, School, defaultAccent, <<>>) :
     id \in {1} \cup Ids(evs), title \in SampleTitles, day \in SampleDays,
     start \in SampleTimes, end \in SampleTimes}

InitEditor ==
  /\ mounted = TRUE
  /\ hpc = Len(KEYS) + 1
  /\ settings = [k \in SettingKeys |-> Fallback(k)]
  /\ events \in EditorStores
  /\ editing \in {<<c>> : c \in Candidates(events)}
  /\ open = TRUE
  /\ alerts = <<>>
  /\ nextId = 2
  /\ reading = <<>>
  /\ download = <<>>
  /\ storage = [EarlierStorage EXCEPT ![KeyEvents] = JSONstringify(events)]
  /\ writes = <<>>

NextEditor ==
  \/ saveEvent
  \/ deleteEvent
  \/ closeModal
  \/ ApplyWrite

SpecEditor == InitEditor /\ [][NextEditor]_vars

(***************************************************************************)
(* An export and import session on a store whose fields hold commas,       *)
(* double quotes, blanks and nothing at all.                               *)
(***************************************************************************)
CsvTexts == {<<>>, TitleA, <<"a", ",", "b">>, <<"a", "\"", "b">>, <<" ">>}

CsvSamples ==
  {EventItem(id, title, Monday, T0900, T1000, School, defaultAccent, notes) :
     id \in {0, -1}, title \in CsvTexts, notes \in CsvTexts}

CsvStores ==
  {<<>>} \cup {<<x>> : x \in {e \in CsvSamples : e.id = 0}}
         \cup {<<x, y>> : x \in {e \in CsvSamples : e.id = 0 /\ e.notes = <<>>},
                          y \in {e \in CsvSamples : e.id = -1 /\ e.title = TitleA}}

InitCSV ==
  /\ mounted = TRUE
  /\ hpc = Len(KEYS) + 1
  /\ settings = [k \in SettingKeys |-> Fallback(k)]
  /\ events \in CsvStores
  /\ editing = <<>>
  /\ open = FALSE
  /\ alerts = <<>>
  /\ nextId = 1
  /\ reading = <<>>
  /\ download = <<>>
  /\ storage = [EarlierStorage EXCEPT ![KeyEvents] = JSONstringify(events)]
  /\ writes = <<>>

NextCSV ==
  \/ exportCSV
  \/ importCSVWeb
  \/ readerOnload
  \/ ApplyWrite

SpecCSV == InitCSV /\ [][NextCSV]_vars

(***************************************************************************)
(* Startup alone: the component mounts over whatever an earlier session,   *)
(* or a damaged store, left under each key, and nothing is pressed.  React *)
(* runs the effects of a mounted component and every AsyncStorage promise  *)
(* settles, so the mount and each read of the hydration do happen.         *)
(***************************************************************************)
storedTitle == <<"M","y">>
storedColor == <<"#","e","f","4","4","4","4">>
storedPhoto == <<"p">>

\* what an earlier session that changed every setting stored under the key
StoredValue(key) ==
  CASE key = KeyTitle -> storedTitle
    [] key = KeyBgColor -> storedColor
    [] key = KeyAccent -> storedColor
    [] key = KeyPhoto -> storedPhoto
    [] key = KeyEvents -> <<PersistedEvent>>
    [] key = KeyDense -> True

StartupStorages ==
  {st \in [StorageKeys -> {"missing", "corrupt", "json"}] : TRUE}

InitStartup ==
  /\ mounted = FALSE
  /\ hpc = 0
  /\ settings = [k \in SettingKeys |-> Fallback(k)]
  /\ events = <<>>
  /\ editing = <<>>
  /\ open = FALSE
  /\ alerts = <<>>
  /\ nextId = 1
  /\ reading = <<>>
  /\ download = <<>>
  /\ \E st \in StartupStorages :
       storage = [k \in StorageKeys |->
                    CASE st[k] = "missing" -> Missing
                      [] st[k] = "corrupt" -> Corrupt
                      [] st[k] = "json" -> JSONstringify(StoredValue(k))]
  /\ writes = <<>>

NextStartup ==
  \/ Mount
  \/ HydrateStep
  \/ ApplyWrite

SpecStartup ==
  InitStartup /\ [][NextStartup]_vars /\ WF_vars(Mount) /\ WF_vars(HydrateStep)

(***************************************************************************)
(* The events layer of the grid: each event is drawn as a box whose top    *)
(* and height come from its times, the row height and the dense switch.    *)
(* timeToRow counts half rows here, so a half row is rowHeight / 2 pixels. *)
(***************************************************************************)
rowHeight == 48

denseFactor(denseHours) == IF denseHours = True THEN 2 ELSE 1

eventTop(e, denseHours) ==
  LET r == timeToRow(e.start)
  IN IF r.nan THEN NaN
     ELSE Num((r.v * rowHeight * denseFactor(denseHours)) \div 2)

eventHeight(e, denseHours) ==
  LET r == NumSub(timeToRow(e.end), timeToRow(e.start))
  IN IF r.nan THEN NaN
     ELSE Num((r.v * rowHeight * denseFactor(denseHours)) \div 2)

\* the Switch hands the opposite of the value it shows to setDenseHours
setDenseHours ==
  /\ mounted
  /\ Len(writes) < MaxPending
  /\ LET v == IF settings[KeyDense] = True THEN False ELSE True
     IN /\ settings' = [settings EXCEPT ![KeyDense] = v]
        /\ writes' = setLS(writes, KeyDense, v)
  /\ alerts' = <<>> /\ download' = <<>>
  /\ UNCHANGED <<mounted, hpc, events, editing, open, nextId, reading, storage>>

T0600 == <<"0","6",":","0","0">>
T0700 == <<"0","7",":","0","0">>
T0959 == <<"0","9",":","5","9">>
T1030 == <<"1","0",":","3","0">>
T2329 == <<"2","3",":","2","9">>
T2330 == <<"2","3",":","3","0">>

GridSamples ==
  {EventItem(0, TitleA, Monday, T0900, T1030, School, defaultAccent, <<>>),
   EventItem(-1, TitleA, Monday, T0930, T0959, School, defaultAccent, <<>>),
   EventItem(-2, TitleA, Tuesday, T0700, T0920, School, defaultAccent, <<>>),
   EventItem(-3, TitleA, Tuesday, T2329, T2330, School, defaultAccent, <<>>),
   EventItem(-4, TitleA, Sunday, T0600, T0700, School, defaultAccent, <<>>),
   EventItem(-5, TitleA, Sunday, T1030, T0910, School, defaultAccent, <<>>)}

GridStores ==
  {<<>>} \cup {<<x>> : x \in GridSamples}
         \cup {p \in GridSamples \X GridSamples : p[1] # p[2]}

InitGrid ==
  /\ mounted = TRUE
  /\ hpc = Len(KEYS) + 1
  /\ settings = [k \in SettingKeys |-> Fallback(k)]
  /\ events \in GridStores
  /\ editing = <<>>
  /\ open = FALSE
  /\ alerts = <<>>
  /\ nextId = 1
  /\ reading = <<>>
  /\ download = <<>>
  /\ storage = [EarlierStorage EXCEPT ![KeyEvents] = JSONstringify(events)]
  /\ writes = <<>>

NextGrid ==
  \/ setDenseHours
  \/ ApplyWrite

SpecGrid == InitGrid /\ [][NextGrid]_vars

(***************************************************************************)
(* Properties.                                                             *)
(***************************************************************************)
DigitValue(c) == IndexIn(Digits, c) - 1
IsDigit(c) == \E d \in 1..Len(Digits) : Digits[d] = c

\* a 24-hour HH:MM time of day
WellFormedTime(t) ==
  /\ Len(t) = 5
  /\ IsDigit(t[1]) /\ IsDigit(t[2]) /\ t[3] = ":" /\ IsDigit(t[4]) /\ IsDigit(t[5])
  /\ 10 * DigitValue(t[1]) + DigitValue(t[2]) < 24
  /\ 10 * DigitValue(t[4]) + DigitValue(t[5]) < 60

WellFormedTimes(e) == WellFormedTime(e.start) /\ WellFormedTime(e.end)

\* minutes since midnight, read off the digits
MinuteOfDay(t) ==
  60 * (10 * DigitValue(t[1]) + DigitValue(t[2]))
  + 10 * DigitValue(t[4]) + DigitValue(t[5])

OnHalfHour(t) == MinuteOfDay(t) % 30 = 0

\* the minutes of the half-open interval [start, end)
MinuteSpan(e) == MinuteOfDay(e.start)..(MinuteOfDay(e.end) - 1)

\* the half-hour grid rows of [start, end), each time rounded down to the
\* half hour; row 0 starts at 07:00
GridRow(t) == (MinuteOfDay(t) - 7 * 60) \div 30
GridSpan(e) == GridRow(e.start)..(GridRow(e.end) - 1)

AllBlank(str) == \A i \in 1..Len(str) : str[i] \in WhiteSpace

StoredPairs == {<<events[i], editing[1]>> : i \in 1..Len(events)}

\* C1: the sorted view of the collection is ordered by weekday index and,
\* within a day, by non-decreasing start row
C1_SortedByDayThenStart ==
  LET view == sortedEvents(events)
  IN \A i \in 1..Len(view) : \A j \in (i + 1)..Len(view) :
       \/ DayIndex(view[i].day) < DayIndex(view[j].day)
       \/ /\ DayIndex(view[i].day) = DayIndex(view[j].day)
          /\ ~NumLess(timeToRow(view[j].start), timeToRow(view[i].start))

\* C2: importing the text exportCSV produces for the collection yields a
\* collection of the same length and order whose events equal the
\* originals in every field but the id
C2_ExportImportRoundTrip ==
  [][(reading # <<>> /\ reading' = Tail(reading)
      /\ Head(reading) = ExportText(events) /\ readerOnload)
       => /\ Len(events') = Len(events)
          /\ \A i \in 1..Len(events) : Fields(events'[i]) = Fields(events[i])]_vars

\* C3: saveEvent on a candidate whose title is blank or whose start is not
\* less than its end raises an error and leaves the collection, and the
\* writes issued for it, as they were
C3_InvalidSaveRejected ==
  [][(/\ open /\ editing # <<>>
      /\ \/ AllBlank(editing[1].title)
         \/ ~StrLess(editing[1].start, editing[1].end)
      /\ saveEvent)
       => /\ events' = events
          /\ writes' = writes
          /\ alerts' \in {<<AlertTitle>>, <<AlertTime>>}]_vars

\* a stored event's edit was rejected for its time range
C3_Witness ==
  /\ alerts = <<AlertTime>>
  /\ open /\ editing # <<>>
  /\ editing[1].id \in Ids(events)
  /\ editing[1].start = T1000 /\ editing[1].end = T0900

\* C4 as stated: for well-formed times, overlaps is false across days and
\* otherwise true exactly when the minute intervals [start, end) intersect
C4_OverlapIsMinuteIntersection ==
  editing # <<>> =>
    \A p \in StoredPairs :
      (WellFormedTimes(p[1]) /\ WellFormedTimes(p[2])) =>
        /\ p[1].day # p[2].day => ~overlaps(p[1], p[2])
        /\ p[1].day = p[2].day =>
             (overlaps(p[1], p[2]) <=> MinuteSpan(p[1]) \cap MinuteSpan(p[2]) # {})

\* C4 amended: for well-formed times, overlaps is false across days and
\* otherwise true exactly when the half-hour grid rows of the two events
\* intersect; for times on the half hour, exactly when the minute
\* intervals intersect
C4_OverlapIsGridIntersection ==
  editing # <<>> =>
    \A p \in StoredPairs :
      (WellFormedTimes(p[1]) /\ WellFormedTimes(p[2])) =>
        /\ p[1].day # p[2].day => ~overlaps(p[1], p[2]) /\ ~overlaps(p[2], p[1])
        /\ p[1].day = p[2].day =>
             /\ overlaps(p[1], p[2]) <=> GridSpan(p[1]) \cap GridSpan(p[2]) # {}
             /\ overlaps(p[2], p[1]) <=> GridSpan(p[1]) \cap GridSpan(p[2]) # {}
             /\ (\A t \in {p[1].start, p[1].end, p[2].start, p[2].end} : OnHalfHour(t))
                  => (overlaps(p[1], p[2]) <=>
                        MinuteSpan(p[1]) \cap MinuteSpan(p[2]) # {})

\* a save warned about an overlap with a candidate that starts off the
\* half hour
C4_Witness ==
  /\ alerts = <<AlertOverlap>>
  /\ editing # <<>> /\ editing[1].start = T0910
  /\ \E p \in StoredPairs :
       /\ p[1].id # p[2].id /\ WellFormedTimes(p[1]) /\ overlaps(p[1], p[2])

\* C5: saveEvent on a valid candidate commits it, appended when its id is
\* new and in place of the same-id event otherwise, and warns exactly when
\* a stored event of another id overlaps it
C5_ValidSaveCommits ==
  [][(/\ open /\ editing # <<>>
      /\ ~AllBlank(editing[1].title)
      /\ StrLess(editing[1].start, editing[1].end)
      /\ saveEvent)
       => LET c == editing[1]
          IN /\ IF c.id \in Ids(events)
                  THEN /\ Len(events') = Len(events)
                       /\ \A i \in 1..Len(events) :
                            events'[i] = IF events[i].id = c.id THEN c ELSE events[i]
                  ELSE events' = events \o <<c>>
             /\ alerts' \in {<<>>, <<AlertOverlap>>}
             /\ alerts' = <<AlertOverlap>> <=>
                  \E i \in 1..Len(events) :
                     events[i].id # c.id /\ overlaps(events[i], c)]_vars

\* an edited event was committed over its stored version, next to another
\* event it overlaps
C5_Witness ==
  /\ alerts = <<AlertOverlap>> /\ ~open
  /\ Len(events) = 2 /\ editing # <<>>
  /\ events[1] = editing[1] /\ editing[1].id = 0

\* C6: an import of a file with a header and n data rows leaves exactly n
\* events, one per row in file order, each with a new id that differs from
\* the other imported ids and from every id the store held before
C6_ImportReplacesStore ==
  [][(reading # <<>> /\ reading' = Tail(reading)
      /\ FileLines(Head(reading)) # <<>> /\ readerOnload)
       => LET lines == FileLines(Head(reading))
              cols == HeaderCols(lines[1])
          IN /\ Len(events') = Len(lines) - 1
             /\ \A i \in 1..Len(events') :
                  Fields(events'[i]) = RowObject(cols, lines[i + 1])
             /\ \A i \in 1..Len(events') : \A j \in 1..Len(events') :
                  i # j => events'[i].id # events'[j].id
             /\ Ids(events') \cap Ids(events) = {}
             /\ \A i \in 1..Len(events') : events'[i].id >= nextId]_vars

\* two rows were imported over a store that held the earlier session's
\* event, which the form still shows
C6_Witness ==
  /\ alerts = <<AlertImported>>
  /\ Len(events) = 2
  /\ editing = <<PersistedEvent>>
  /\ PersistedEvent.id \notin Ids(events)

\* C7: no two events in the store have the same id
C7_UniqueIds ==
  \A i \in 1..Len(events) : \A j \in 1..Len(events) :
    i # j => events[i].id # events[j].id

\* the earlier session's event was edited and saved again, and a new event
\* was added next to it
C7_Witness ==
  /\ Len(events) = 2
  /\ events[1].id = PersistedEvent.id /\ events[1] # PersistedEvent
  /\ editing = <<events[2]>> /\ ~open

RangeOk(e) == StrLess(e.start, e.end)

\* C8 as stated: every stored event has its start before its end
C8_AllRangesOk == \A i \in 1..Len(events) : RangeOk(events[i])

\* C8 amended: every event in the store after a saveEvent or deleteEvent
\* step was in the store before the step or has its start before its end
C8_SaveKeepsRangesOk ==
  [][(saveEvent \/ deleteEvent)
       => \A i \in 1..Len(events') :
            \/ RangeOk(events'[i])
            \/ \E j \in 1..Len(events) : events[j] = events'[i]]_vars

\* a save was committed into a store that holds an imported event whose end
\* precedes its start
C8_Witness ==
  /\ ~open /\ editing # <<>>
  /\ \E i \in 1..Len(events) : ~RangeOk(events[i])
  /\ \E i \in 1..Len(events) : events[i] = editing[1] /\ RangeOk(events[i])
  /\ writes # <<>> /\ alerts = <<>>

\* C9: an import whose file has no header line leaves the collection as it
\* was, issues no write, and reports one error
C9_FailedImportKeepsStore ==
  [][(reading # <<>> /\ reading' = Tail(reading)
      /\ FileLines(Head(reading)) = <<>> /\ readerOnload)
       => /\ events' = events
          /\ writes' = writes
          /\ alerts' = <<AlertImportFailed>>]_vars

\* an import failed on a store that holds events
C9_Witness ==
  /\ alerts = <<AlertImportFailed>>
  /\ events # <<>>
  /\ reading = <<>>

\* no handler that changes the collection has run: the form was never
\* opened and no import has drawn an id
NoUserMutation == editing = <<>> /\ nextId = 1

\* C10: while the startup has not yet read the persisted collection, no
\* write issued by the mount-time effects changes the persisted entry
C10_StartupKeepsPersisted ==
  [][(/\ NoUserMutation
      /\ hpc <= 5
      /\ storage[KeyEvents].kind = "json")
       => storage'[KeyEvents] = storage[KeyEvents]]_vars

\* C11: every read of the startup yields the key's default when the entry
\* is missing or is not JSON, and otherwise the stored value or (the read
\* having failed) the default; no read stops the startup, which gets
\* through all six keys
C11_LoaderFallsBack ==
  /\ [][(hpc \in 1..Len(KEYS) /\ hpc' = hpc + 1)
          => LET key == KEYS[hpc]
                 raw == storage[key]
                 loaded == IF key = KeyEvents THEN events' ELSE settings'[key]
             IN /\ raw.kind \in {"missing", "corrupt"} => loaded = Fallback(key)
                /\ \/ loaded = Fallback(key)
                   \/ raw.kind = "json" /\ loaded = raw.val]_vars
  /\ <>(hpc = Len(KEYS) + 1)

\* the startup is through: the title entry was not JSON and the title is
\* the default, the stored accent was read before the default was written
\* over it
C11_Witness ==
  /\ hpc = Len(KEYS) + 1
  /\ storage[KeyTitle] = JSONstringify(defaultTitle)
  /\ settings[KeyTitle] = defaultTitle
  /\ settings[KeyAccent] = storedColor
  /\ storage[KeyPhoto] = Corrupt

\* the hour and the minute of a well-formed time, read off the digits
HourOf(t) == 10 * DigitValue(t[1]) + DigitValue(t[2])
MinuteOf(t) == 10 * DigitValue(t[4]) + DigitValue(t[5])

\* twice the row of a time: 2 * (hour - 7), and 1 more from minute 30 on
TwiceRow(t) == 2 * (HourOf(t) - 7) + (IF MinuteOf(t) >= 30 THEN 1 ELSE 0)

\* C12: for every event with well-formed times the box starts at
\* row(start) * 48 * D and is (row(end) - row(start)) * 48 * D high, D being
\* 2 with the dense switch on and 1 with it off and row(t) being hour - 7
\* plus one half from minute 30 on; 09:00 to 10:30 with D = 1 starts at 96
\* and is 72 high
C12_BoxGeometry ==
  \A i \in 1..Len(events) :
    LET e == events[i]
        dense == settings[KeyDense]
        D == IF dense = True THEN 2 ELSE 1
        top == eventTop(e, dense)
        height == eventHeight(e, dense)
    IN WellFormedTimes(e) =>
         /\ ~top.nan /\ ~height.nan
         /\ 2 * top.v = TwiceRow(e.start) * 48 * D
         /\ 2 * height.v = (TwiceRow(e.end) - TwiceRow(e.start)) * 48 * D
         /\ (e.start = T0900 /\ e.end = T1030 /\ D = 1)
              => (top.v = 96 /\ height.v = 72)

\* the dense switch was turned on and stored; an event from 09:30 to 09:59
\* is drawn from 240 on and has no height
C12_Witness ==
  /\ settings[KeyDense] = True
  /\ storage[KeyDense] = JSONstringify(True)
  /\ \E i \in 1..Len(events) :
       /\ events[i].start = T0930 /\ events[i].end = T0959
       /\ eventTop(events[i], settings[KeyDense]) = Num(240)
       /\ eventHeight(events[i], settings[KeyDense]) = Num(0)

\* C13: every step that changes the collection issues, behind the writes
\* already on their way and without waiting for any of them, one write of
\* the whole new collection under the events key; and once the component is
\* mounted and no write for the events key is on its way any more, the
\* stored entry is the collection in memory
C13_ChangeIsPersisted ==
  /\ [][events' # events
          => writes' = Append(writes, [key |-> KeyEvents,
                                       raw |-> JSONstringify(events')])]_vars
  /\ []((mounted /\ \A i \in 1..Len(writes) : writes[i].key # KeyEvents)
          => storage[KeyEvents] = JSONstringify(events))

\* an event added in this session is in memory and, all writes applied, in
\* the store
C13_Witness ==
  /\ hpc = Len(KEYS) + 1
  /\ writes = <<>>
  /\ \E i \in 1..Len(events) : events[i].id >= 1
  /\ storage[KeyEvents] = JSONstringify(events)

\* C14: an event of the collection is still in it after every step, except
\* a deleteEvent of the event being edited and an import; above all no read
\* of the hydration takes out an event that was put in while it was running
C14_SavedEventStays ==
  [][\A i \in 1..Len(events) :
       (\A j \in 1..Len(events') : events'[j].id # events[i].id)
         => /\ hpc' = hpc
            /\ \/ editing # <<>> /\ editing[1].id = events[i].id
               \/ reading # <<>> /\ reading' = Tail(reading)]_vars

====
